---- MODULE Spec2Model ----
(***************************************************************************)
(* Model of Eigen/src/Core/StlIterators.h: the STL-style iterators over    *)
(* 1-D dense expressions (pointer_based_stl_iterator and                   *)
(* generic_randaccess_stl_iterator), the iterator over the rows / columns  *)
(* of a 2-D expression (subvector_stl_iterator) and its range              *)
(* (SubVectorsProxy).                                                      *)
(*                                                                         *)
(* Addresses are integers counted in elements, as in C++ arithmetic on a   *)
(* pointer to Scalar; Index is a mathematical integer: the bounds keep     *)
(* every value far from the 64-bit limits.                                 *)
(***************************************************************************)
EXTENDS Integers, Sequences, FiniteSets, TLC

VARIABLES
  xpr,      \* the 1-D expression the iterators are taken from
  direct,   \* its DirectAccessBit: TRUE selects pointer_based_stl_iterator
  debug,    \* TRUE when eigen_assert is compiled in
  its,      \* the two iterator objects of the driver: its.a and its.b
  ret,      \* the iterator returned by the last operation, or NoIt
  out,      \* the non-iterator result of the last operation
  last,     \* the last operation and its Index argument
  g,        \* history: the expression and logical position behind a, b, ret,
            \* and its.a as it was before the last operation that returned
            \* a new iterator or a value
  mat,      \* the 2-D expression of the traversal
  lpc,      \* position of the traversal loop
  lit,      \* the traversal's iterator
  lconst,   \* TRUE when it is a const_iterator (taken from cbegin())
  visited   \* what the traversal dereferenced, in order

vars == <<xpr, direct, debug, its, ret, out, last, g, mat, lpc, lit, lconst, visited>>

hvars == <<its, ret, out, last, g>>
lvars == <<mat, lpc, lit, lconst, visited>>

----------------------------------------------------------------------------
(* Bounds *)

MaxSize == 3
MaxStride == 2
MaxStep == 2
Slack == 1
MaxDim == 3

Sizes == 0..MaxSize
Strides == (0 - MaxStride)..MaxStride
Steps == (0 - MaxStep)..MaxStep

----------------------------------------------------------------------------
(* The expressions the iterators are bound to *)

\* Address of the element with logical index 0: the lowest address of the
\* buffer for a forward view, the highest stored one for a reversed view.
DataOf(stride, size) ==
  IF stride < 0 /\ size > 0 THEN (size - 1) * (0 - stride) ELSE 0

\* The content of the buffer: every address holds a different value.
Load(addr) == 10 * addr + 7

Xprs ==
  { [id |-> 1, data |-> DataOf(s, n), stride |-> s, size |-> n] :
      s \in Strides, n \in Sizes }

\* A second expression instance viewing the same storage.
Other(x) == [x EXCEPT !.id = 2]

ById(id) == IF id = 1 THEN xpr ELSE Other(xpr)

\* The address of the element at logical index k.
XprAddr(x, k) == x.data + k * x.stride

\* xpr(k), xpr.coeff(k): the element at logical index k.
XprCoeff(x, k) == Load(XprAddr(x, k))

\* C++ integer division truncates toward zero.
CDiv(x, y) ==
  IF (x >= 0) = (y > 0) THEN (IF x >= 0 THEN x ELSE 0 - x) \div (IF y > 0 THEN y ELSE 0 - y)
  ELSE 0 - ((IF x >= 0 THEN x ELSE 0 - x) \div (IF y > 0 THEN y ELSE 0 - y))

----------------------------------------------------------------------------
(* Results of an operation that does not return an iterator *)

NoOut == [tag |-> "none", b |-> FALSE, n |-> 0]
BoolOut(v) == [tag |-> "bool", b |-> v, n |-> 0]
IntOut(v) == [tag |-> "int", b |-> FALSE, n |-> v]
ElemOut(v) == [tag |-> "elem", b |-> FALSE, n |-> v]
AddrOut(v) == [tag |-> "addr", b |-> FALSE, n |-> v]
\* eigen_assert failed: the program is aborted, no result is returned.
AssertFail == [tag |-> "assert", b |-> FALSE, n |-> 0]
\* integer division by zero trapped: the program is aborted.
Trap == [tag |-> "trap", b |-> FALSE, n |-> 0]

NoIt == [kind |-> "none"]

----------------------------------------------------------------------------
(* pointer_based_stl_iterator *)

PtrCtor(x, index) ==
  [kind |-> "ptr", m_ptr |-> x.data + index * x.stride, m_incr |-> x.stride]

\* The const member functions: the element (or address) they return (val)
\* and the iterator as they leave it (self).
PtrDeref(it) == [self |-> it, val |-> Load(it.m_ptr)]
\* operator[] that forgets the stride.
PtrIndexUnscaled(it, i) == [self |-> it, val |-> Load(it.m_ptr + i)]
PtrIndex(it, i) == [self |-> it, val |-> Load(it.m_ptr + i * it.m_incr)]
PtrArrow(it) == [self |-> it, val |-> it.m_ptr]

PtrInc(it) == [it EXCEPT !.m_ptr = @ + it.m_incr]
PtrDec(it) == [it EXCEPT !.m_ptr = @ - it.m_incr]
\* += that forgets the stride.
PtrPlusAssignUnscaled(it, b) == [it EXCEPT !.m_ptr = @ + b]
PtrPlusAssign(it, b) == [it EXCEPT !.m_ptr = @ + b * it.m_incr]
PtrMinusAssign(it, b) == [it EXCEPT !.m_ptr = @ - b * it.m_incr]

\* Each of the following returns the object the operation was called on as
\* the operation leaves it (self) and the iterator it returns (ret).
PtrPostInc(it) == [self |-> PtrInc(it), ret |-> it]
PtrPostDec(it) == [self |-> PtrDec(it), ret |-> it]
PtrPlus(a, b) == [self |-> a, ret |-> PtrPlusAssign(a, b)]
PtrMinus(a, b) == [self |-> a, ret |-> PtrMinusAssign(a, b)]
PtrRPlus(a, b) == [self |-> b, ret |-> PtrPlusAssign(b, a)]
PtrRMinus(a, b) == [self |-> b, ret |-> PtrMinusAssign(b, a)]

\* What an integer division by zero produces, undefined in C++: a trap (the
\* x86 division instruction) or the quotient 0 (the AArch64 one).
DivByZeroOutcomes == {Trap, IntOut(0)}

\* The set of possible outcomes of a - other.
PtrDiff(a, other) ==
  IF a.m_incr = 0 THEN DivByZeroOutcomes
  ELSE { IntOut(CDiv(a.m_ptr - other.m_ptr, a.m_incr)) }

PtrEq(a, other) == BoolOut(a.m_ptr = other.m_ptr)
PtrNe(a, other) == BoolOut(a.m_ptr # other.m_ptr)
PtrLt(a, other) == BoolOut(a.m_ptr < other.m_ptr)
PtrLe(a, other) == BoolOut(a.m_ptr <= other.m_ptr)
PtrGt(a, other) == BoolOut(a.m_ptr > other.m_ptr)
PtrGe(a, other) == BoolOut(a.m_ptr >= other.m_ptr)

----------------------------------------------------------------------------
(* indexed_based_stl_iterator_base *)

IdxCtor(kind, x, index) == [kind |-> kind, mp_xpr |-> x.id, m_index |-> index]

IdxInc(it) == [it EXCEPT !.m_index = @ + 1]
IdxDec(it) == [it EXCEPT !.m_index = @ - 1]
IdxPlusAssign(it, b) == [it EXCEPT !.m_index = @ + b]
IdxMinusAssign(it, b) == [it EXCEPT !.m_index = @ - b]

IdxPostInc(it) == [self |-> IdxInc(it), ret |-> it]
IdxPostDec(it) == [self |-> IdxDec(it), ret |-> it]
IdxPlus(a, b) == [self |-> a, ret |-> IdxPlusAssign(a, b)]
IdxMinus(a, b) == [self |-> a, ret |-> IdxMinusAssign(a, b)]
IdxRPlus(a, b) == [self |-> b, ret |-> IdxPlusAssign(b, a)]
\* Index - iterator that works on its argument instead of on a copy.
IdxRMinusInPlace(a, b) == [self |-> IdxMinusAssign(b, a), ret |-> IdxMinusAssign(b, a)]
IdxRMinus(a, b) == [self |-> b, ret |-> IdxMinusAssign(b, a)]

\* The comparison without its eigen_assert.
SameXprAssertOff(a, other, dbg, result) == result

\* eigen_assert(mp_xpr == other.mp_xpr), compiled in when dbg.
SameXprAssert(a, other, dbg, result) ==
  IF dbg /\ a.mp_xpr # other.mp_xpr THEN AssertFail ELSE result

IdxDiff(a, other, dbg) ==
  { SameXprAssert(a, other, dbg, IntOut(a.m_index - other.m_index)) }

IdxEq(a, other, dbg) == SameXprAssert(a, other, dbg, BoolOut(a.m_index = other.m_index))
IdxNe(a, other, dbg) == SameXprAssert(a, other, dbg, BoolOut(a.m_index # other.m_index))
IdxLt(a, other, dbg) == SameXprAssert(a, other, dbg, BoolOut(a.m_index < other.m_index))
IdxLe(a, other, dbg) == SameXprAssert(a, other, dbg, BoolOut(a.m_index <= other.m_index))
IdxGt(a, other, dbg) == SameXprAssert(a, other, dbg, BoolOut(a.m_index > other.m_index))
IdxGe(a, other, dbg) == SameXprAssert(a, other, dbg, BoolOut(a.m_index >= other.m_index))

----------------------------------------------------------------------------
(* generic_randaccess_stl_iterator *)

GenCtor(x, index) == IdxCtor("gen", x, index)
GenDeref(it) == [self |-> it, val |-> XprCoeff(ById(it.mp_xpr), it.m_index)]
GenIndex(it, i) == [self |-> it, val |-> XprCoeff(ById(it.mp_xpr), it.m_index + i)]
GenArrow(it) == [self |-> it, val |-> XprAddr(ById(it.mp_xpr), it.m_index)]

----------------------------------------------------------------------------
(* subvector_stl_iterator *)

\* xpr.subVectors<Direction>(): the number of rows (Horizontal) or of
\* columns (Vertical).
SubVectors(m, dir) == IF dir = "Vertical" THEN m.cols ELSE m.rows

\* The coefficient of a 2-D expression: every (row, col) holds a
\* different value.
MatCoeff(m, r, c) == 10 * r + c

\* xpr.subVector<Direction>(k): the view of column k (Vertical) or of row k
\* (Horizontal), given by its direction, its index and its elements.
SubVector(m, dir, k) ==
  [dir |-> dir, index |-> k,
   elems |-> IF dir = "Vertical" THEN [r \in 1..m.rows |-> MatCoeff(m, r - 1, k)]
             ELSE [c \in 1..m.cols |-> MatCoeff(m, k, c - 1)]]

SubCtor(m, dir, index) ==
  [kind |-> "sub", mp_xpr |-> m.id, m_index |-> index, dir |-> dir]
SubDeref(it, m) == [self |-> it, val |-> SubVector(m, it.dir, it.m_index)]
SubIndex(it, m, i) == [self |-> it, val |-> SubVector(m, it.dir, it.m_index + i)]

----------------------------------------------------------------------------
(* SubVectorsProxy<XprType, Direction>: m_xpr is p.m_xpr, Direction p.dir *)

SubVectorsProxy(m, dir) == [m_xpr |-> m, dir |-> dir]
ProxyBegin(p) == SubCtor(p.m_xpr, p.dir, 0)
ProxyCBegin(p) == SubCtor(p.m_xpr, p.dir, 0)
\* end() that takes the number of rows whatever the direction.
ProxyEndRows(p) == SubCtor(p.m_xpr, p.dir, p.m_xpr.rows)
ProxyEnd(p) == SubCtor(p.m_xpr, p.dir, SubVectors(p.m_xpr, p.dir))
ProxyCEnd(p) == SubCtor(p.m_xpr, p.dir, SubVectors(p.m_xpr, p.dir))

AllCols(m) == SubVectorsProxy(m, "Vertical")
AllRows(m) == SubVectorsProxy(m, "Horizontal")

----------------------------------------------------------------------------
(* DenseBase<Derived>::begin / end / cbegin / cend *)

\* DenseBase::iterator and const_iterator: the pointer-based iterator for an
\* expression with direct access, the generic one otherwise.
Iterator(x, index) == IF direct THEN PtrCtor(x, index) ELSE GenCtor(x, index)

DenseCBegin(x) == Iterator(x, 0)
DenseBegin(x) == Iterator(x, 0)
DenseBeginConst(x) == DenseCBegin(x)
DenseCEnd(x) == Iterator(x, x.size)
DenseEnd(x) == Iterator(x, x.size)
DenseEndConst(x) == DenseCEnd(x)

----------------------------------------------------------------------------
(* The operators of an iterator, resolved on its static type *)

IsPtr(it) == it.kind = "ptr"

Deref(it) == IF IsPtr(it) THEN PtrDeref(it) ELSE GenDeref(it)
Index(it, i) == IF IsPtr(it) THEN PtrIndex(it, i) ELSE GenIndex(it, i)
Arrow(it) == IF IsPtr(it) THEN PtrArrow(it) ELSE GenArrow(it)
Inc(it) == IF IsPtr(it) THEN PtrInc(it) ELSE IdxInc(it)
Dec(it) == IF IsPtr(it) THEN PtrDec(it) ELSE IdxDec(it)
PostInc(it) == IF IsPtr(it) THEN PtrPostInc(it) ELSE IdxPostInc(it)
PostDec(it) == IF IsPtr(it) THEN PtrPostDec(it) ELSE IdxPostDec(it)
PlusAssign(it, b) == IF IsPtr(it) THEN PtrPlusAssign(it, b) ELSE IdxPlusAssign(it, b)
MinusAssign(it, b) == IF IsPtr(it) THEN PtrMinusAssign(it, b) ELSE IdxMinusAssign(it, b)
Plus(a, b) == IF IsPtr(a) THEN PtrPlus(a, b) ELSE IdxPlus(a, b)
Minus(a, b) == IF IsPtr(a) THEN PtrMinus(a, b) ELSE IdxMinus(a, b)
RPlus(a, b) == IF IsPtr(b) THEN PtrRPlus(a, b) ELSE IdxRPlus(a, b)
RMinus(a, b) == IF IsPtr(b) THEN PtrRMinus(a, b) ELSE IdxRMinus(a, b)
Diff(a, other) == IF IsPtr(a) THEN PtrDiff(a, other) ELSE IdxDiff(a, other, debug)

CmpOps == {"eq", "ne", "lt", "le", "gt", "ge"}

Compare(op, a, other) ==
  CASE op = "eq" -> IF IsPtr(a) THEN PtrEq(a, other) ELSE IdxEq(a, other, debug)
    [] op = "ne" -> IF IsPtr(a) THEN PtrNe(a, other) ELSE IdxNe(a, other, debug)
    [] op = "lt" -> IF IsPtr(a) THEN PtrLt(a, other) ELSE IdxLt(a, other, debug)
    [] op = "le" -> IF IsPtr(a) THEN PtrLe(a, other) ELSE IdxLe(a, other, debug)
    [] op = "gt" -> IF IsPtr(a) THEN PtrGt(a, other) ELSE IdxGt(a, other, debug)
    [] op = "ge" -> IF IsPtr(a) THEN PtrGe(a, other) ELSE IdxGe(a, other, debug)

----------------------------------------------------------------------------
(* The driver: a program that takes iterators from the expression and      *)
(* applies the iterator operations to them.                                *)

\* The driver runs, and no operation has aborted the program.
Running == lpc = "idle" /\ out.tag \notin {"assert", "trap"}

\* Logical positions the driver moves its.a through: the valid range and
\* Slack positions on either side of it.
InBounds(p) == p \in (0 - Slack)..(xpr.size + Slack)
Valid(p) == p \in 0..(xpr.size - 1)

Op(name, n) == [op |-> name, n |-> n]
Pos(id, p) == [x |-> id, pos |-> p]
NoPos == Pos(0, 0)

\* An iterator is constructed into a slot.
Construct(slot, it, id, p) ==
  /\ Running
  /\ its' = [its EXCEPT ![slot] = it]
  /\ g' = [g EXCEPT ![slot] = Pos(id, p), !.r = NoPos, !.prev = NoIt]
  /\ ret' = NoIt
  /\ out' = NoOut
  /\ last' = Op("ctor", p)
  /\ UNCHANGED <<xpr, direct, debug, lvars>>

DoBegin == \E slot \in {"a", "b"} : Construct(slot, DenseBegin(xpr), 1, 0)

DoCBegin == \E slot \in {"a", "b"} : Construct(slot, DenseBeginConst(xpr), 1, 0)

DoEnd == \E slot \in {"a", "b"} : Construct(slot, DenseEnd(xpr), 1, xpr.size)

DoCEnd == \E slot \in {"a", "b"} : Construct(slot, DenseEndConst(xpr), 1, xpr.size)

\* iterator(xpr, k), the public constructor.
DoCtor ==
  \E slot \in {"a", "b"} : \E k \in 0..xpr.size :
    Construct(slot, Iterator(xpr, k), 1, k)

\* An operation that changes its.a in place by n positions; returned is what
\* the operation returns when that is a copy (the post- forms).
Mutate(name, n, new, returned, rpos) ==
  /\ Running
  /\ InBounds(g.a.pos + n)
  /\ its' = [its EXCEPT !.a = new]
  /\ g' = [g EXCEPT !.a = Pos(g.a.x, g.a.pos + n), !.r = rpos, !.prev = NoIt]
  /\ ret' = returned
  /\ out' = NoOut
  /\ last' = Op(name, n)
  /\ UNCHANGED <<xpr, direct, debug, lvars>>

DoPreInc == Mutate("preinc", 1, Inc(its.a), NoIt, NoPos)
DoPreDec == Mutate("predec", 0 - 1, Dec(its.a), NoIt, NoPos)
DoPostInc == Mutate("postinc", 1, PostInc(its.a).self, PostInc(its.a).ret, g.a)
DoPostDec == Mutate("postdec", 0 - 1, PostDec(its.a).self, PostDec(its.a).ret, g.a)
DoPlusAssign == \E n \in Steps : Mutate("pluseq", n, PlusAssign(its.a, n), NoIt, NoPos)
DoMinusAssign ==
  \E n \in Steps : Mutate("minuseq", 0 - n, MinusAssign(its.a, n), NoIt, NoPos)

\* A binary offset of its.a by the Index n; r is what the operator leaves
\* of its argument (self) and what it returns (ret).
Offset(name, n, r, delta) ==
  /\ Running
  /\ its' = [its EXCEPT !.a = r.self]
  /\ ret' = r.ret
  /\ g' = [g EXCEPT !.r = Pos(g.a.x, g.a.pos + delta), !.prev = its.a]
  /\ out' = NoOut
  /\ last' = Op(name, n)
  /\ UNCHANGED <<xpr, direct, debug, lvars>>

DoPlus == \E n \in Steps : Offset("plus", n, Plus(its.a, n), n)
DoMinus == \E n \in Steps : Offset("minus", n, Minus(its.a, n), 0 - n)
DoRPlus == \E n \in Steps : Offset("rplus", n, RPlus(n, its.a), n)
DoRMinus == \E n \in Steps : Offset("rminus", n, RMinus(n, its.a), 0 - n)

\* An operation that returns a value; after is its.a as the operation leaves
\* it.  The iterator the operation before it returned was a temporary and is
\* gone.
Observe(name, n, result, after) ==
  /\ Running
  /\ out' = result
  /\ last' = Op(name, n)
  /\ ret' = NoIt
  /\ g' = [g EXCEPT !.r = IF name = "diffret" THEN @ ELSE NoPos, !.prev = its.a]
  /\ its' = [its EXCEPT !.a = after]
  /\ UNCHANGED <<xpr, direct, debug, lvars>>

\* Dereferencing is the caller's to keep inside the expression.
DoDeref == Valid(g.a.pos) /\ Observe("deref", 0, ElemOut(Deref(its.a).val), Deref(its.a).self)
DoArrow == Valid(g.a.pos) /\ Observe("arrow", 0, AddrOut(Arrow(its.a).val), Arrow(its.a).self)
DoIndex ==
  \E i \in Steps :
    Valid(g.a.pos + i) /\ Observe("index", i, ElemOut(Index(its.a, i).val), Index(its.a, i).self)

\* its.a - its.b
DoDiff == \E result \in Diff(its.a, its.b) : Observe("diff", 0, result, its.a)
\* ret - its.a, for the ret that the operation before returned
DoDiffRet ==
  /\ ret # NoIt
  /\ \E result \in Diff(ret, its.a) : Observe("diffret", last.n, result, its.a)

\* its.a op its.b
DoCompare == \E op \in CmpOps : Observe(op, 0, Compare(op, its.a, its.b), its.a)

----------------------------------------------------------------------------
(* The traversal: for (it = begin(); it != end(); ++it) visit(it), over    *)
(* the 1-D expression, over the rows and over the columns of the 2-D one.  *)

Mats == { [id |-> 3, rows |-> r, cols |-> c] : r \in 0..MaxDim, c \in 0..MaxDim }
NoMat == [id |-> 3, rows |-> 0, cols |-> 0]

\* No traversal visits more than this many positions in the model.
Cap == (IF MaxSize > MaxDim THEN MaxSize ELSE MaxDim) + Slack

ProxyOf(it) == SubVectorsProxy(mat, it.dir)

\* end() of the range the iterator was taken from, evaluated now.
EndOf(it) == IF it.kind = "sub" THEN ProxyEnd(ProxyOf(it)) ELSE DenseEnd(xpr)
CEndOf(it) == IF it.kind = "sub" THEN ProxyCEnd(ProxyOf(it)) ELSE DenseCEnd(xpr)

TDeref(it) == IF it.kind = "sub" THEN SubDeref(it, mat) ELSE Deref(it)

TStart(it, const) ==
  /\ lpc = "start"
  /\ lit' = it
  /\ lconst' = const
  /\ lpc' = "test"
  /\ UNCHANGED <<xpr, direct, debug, hvars, mat, visited>>

TBeginDense == mat = NoMat /\ TStart(DenseBegin(xpr), FALSE)
TCBeginDense == mat = NoMat /\ TStart(DenseCBegin(xpr), TRUE)
TBeginRows == mat # NoMat /\ TStart(ProxyBegin(AllRows(mat)), FALSE)
TCBeginRows == mat # NoMat /\ TStart(ProxyCBegin(AllRows(mat)), TRUE)
TBeginCols == mat # NoMat /\ TStart(ProxyBegin(AllCols(mat)), FALSE)
TCBeginCols == mat # NoMat /\ TStart(ProxyCBegin(AllCols(mat)), TRUE)

\* it != end()
TTest ==
  /\ lpc = "test"
  /\ LET e == IF lconst THEN CEndOf(lit) ELSE EndOf(lit)
         c == Compare("ne", lit, e) IN
       lpc' = IF c.tag = "bool" THEN (IF c.b THEN "body" ELSE "done") ELSE "abort"
  /\ UNCHANGED <<xpr, direct, debug, hvars, mat, lit, lconst, visited>>

\* the loop body: dereference it
TBody ==
  /\ lpc = "body"
  /\ Len(visited) < Cap
  /\ visited' = Append(visited, TDeref(lit).val)
  /\ lit' = TDeref(lit).self
  /\ lpc' = "incr"
  /\ UNCHANGED <<xpr, direct, debug, hvars, mat, lconst>>

\* ++it
TPreInc ==
  /\ lpc = "incr"
  /\ lit' = Inc(lit)
  /\ lpc' = "test"
  /\ UNCHANGED <<xpr, direct, debug, hvars, mat, lconst, visited>>

\* it++
TPostInc ==
  /\ lpc = "incr"
  /\ lit' = PostInc(lit).self
  /\ lpc' = "test"
  /\ UNCHANGED <<xpr, direct, debug, hvars, mat, lconst, visited>>

\* A second 2-D expression instance of the same shape.
OtherMat(m) == [m EXCEPT !.id = 4]

\* begin(), end() of the same kind of range over the second instance.
OtherBegin(it) ==
  IF it.kind = "sub" THEN ProxyBegin(SubVectorsProxy(OtherMat(mat), it.dir))
  ELSE DenseBegin(Other(xpr))
OtherEnd(it) ==
  IF it.kind = "sub" THEN ProxyEnd(SubVectorsProxy(OtherMat(mat), it.dir))
  ELSE DenseEnd(Other(xpr))

\* Instead of going on, the program compares it with, or subtracts from it,
\* an iterator taken from the second instance.
TCompareOther ==
  /\ lpc = "test"
  /\ \E e \in {OtherBegin(lit), OtherEnd(lit)} :
       \/ \E op \in CmpOps : out' = Compare(op, lit, e) /\ last' = Op(op, 0)
       \/ \E result \in Diff(lit, e) : out' = result /\ last' = Op("diff", 0)
  /\ lpc' = "compared"
  /\ UNCHANGED <<xpr, direct, debug, its, ret, g, mat, lit, lconst, visited>>

----------------------------------------------------------------------------
(* Specifications *)

HIdle ==
  /\ its = [a |-> DenseBegin(xpr), b |-> DenseBegin(xpr)]
  /\ g = [a |-> Pos(1, 0), b |-> Pos(1, 0), r |-> NoPos, prev |-> NoIt]
  /\ ret = NoIt
  /\ out = NoOut
  /\ last = Op("ctor", 0)

\* The driver, with both iterators taken from begin().
Init ==
  /\ xpr \in Xprs
  /\ direct \in BOOLEAN
  \* pointer_based_stl_iterator holds no eigen_assert: one build stands for both
  /\ debug \in (IF direct THEN {TRUE} ELSE BOOLEAN)
  /\ HIdle
  /\ mat = NoMat
  /\ lpc = "idle"
  /\ lit = NoIt
  /\ lconst = FALSE
  /\ visited = <<>>

Next ==
  \/ DoBegin
  \/ DoCBegin
  \/ DoEnd
  \/ DoCEnd
  \/ DoCtor
  \/ DoPreInc
  \/ DoPreDec
  \/ DoPostInc
  \/ DoPostDec
  \/ DoPlusAssign
  \/ DoMinusAssign
  \/ DoPlus
  \/ DoMinus
  \/ DoRPlus
  \/ DoRMinus
  \/ DoDeref
  \/ DoArrow
  \/ DoIndex
  \/ DoDiff
  \/ DoDiffRet
  \/ DoCompare

Spec == Init /\ [][Next]_vars

\* The traversal of a 1-D expression, or of the rows or columns of a 2-D one.
TInit ==
  /\ debug \in BOOLEAN
  /\ \/ xpr \in Xprs /\ direct \in BOOLEAN /\ mat = NoMat
     \/ xpr \in {x \in Xprs : x.stride = 1 /\ x.size = 0} /\ direct = TRUE
          /\ mat \in Mats \ {NoMat}
  /\ HIdle
  /\ lpc = "start"
  /\ lit = NoIt
  /\ lconst = FALSE
  /\ visited = <<>>

TNext ==
  \/ TBeginDense
  \/ TCBeginDense
  \/ TBeginRows
  \/ TCBeginRows
  \/ TBeginCols
  \/ TCBeginCols
  \/ TTest
  \/ TCompareOther
  \/ TBody
  \/ TPreInc
  \/ TPostInc

TraverseSpec == TInit /\ [][TNext]_vars

----------------------------------------------------------------------------
(* Properties *)

\* The iterator it stands at logical position k of the expression x.
AtPos(it, x, k) ==
  IF it.kind = "ptr" THEN it.m_ptr = XprAddr(x, k) /\ it.m_incr = x.stride
  ELSE it.kind = "gen" /\ it.mp_xpr = x.id /\ it.m_index = k

InRange(p) == p \in 0..xpr.size

OrderOps == {"lt", "le", "gt", "ge"}

\* The comparison op applied to the integers i and j.
IntCompare(op, i, j) ==
  CASE op = "eq" -> i = j
    [] op = "ne" -> i # j
    [] op = "lt" -> i < j
    [] op = "le" -> i <= j
    [] op = "gt" -> i > j
    [] op = "ge" -> i >= j

\* C1: end() - begin() equals size(), for either strategy and any inner
\* stride, begin() and end() taken from the same expression.
C1_EndMinusBeginIsSize ==
  (last.op = "diff" /\ g.a = Pos(1, xpr.size) /\ g.b = Pos(1, 0))
    => out = IntOut(xpr.size)

\* The same with the pointer-based iterator's stride restricted to nonzero
\* values: what the code does guarantee.
EndMinusBeginIsSizeNonzeroStride ==
  (last.op = "diff" /\ g.a = Pos(1, xpr.size) /\ g.b = Pos(1, 0)
     /\ (direct => xpr.stride # 0))
    => out = IntOut(xpr.size)

\* C2: begin() == end() is true if and only if the expression has no
\* elements, for either strategy and any inner stride.
C2_BeginEqEndIffEmpty ==
  (last.op = "eq" /\ g.a = Pos(1, 0) /\ g.b = Pos(1, xpr.size))
    => out = BoolOut(xpr.size = 0)

\* The same with the pointer-based iterator's stride restricted to nonzero
\* values.
BeginEqEndIffEmptyNonzeroStride ==
  (last.op = "eq" /\ g.a = Pos(1, 0) /\ g.b = Pos(1, xpr.size)
     /\ (direct => xpr.stride # 0))
    => out = BoolOut(xpr.size = 0)

\* C3: an iterator at logical position k in [0, size), whether constructed
\* there or moved there by ++, --, +=, -=, dereferences to the expression's
\* element k, and it[i] is the element k + i, for either strategy.
C3_DerefIsElementAt ==
  /\ last.op = "deref" => out = ElemOut(XprCoeff(xpr, g.a.pos))
  /\ last.op = "index" => out = ElemOut(XprCoeff(xpr, g.a.pos + last.n))

\* C3's case: it[i] with i # 0 read through the pointer-based iterator of a
\* reversed view, after the iterator was moved.
C3_Witness ==
  /\ last.op = "index" /\ last.n = 1
  /\ direct /\ xpr.stride < 0 /\ xpr.size = MaxSize
  /\ g.a.pos = 1
  /\ out = ElemOut(Load(0))

\* C4: (it + i) - it = i whenever it and it + i lie in [begin(), end()], and
\* it + i is where += i takes it.
C4_DiffInvertsOffset ==
  /\ (last.op = "diffret" /\ InRange(g.a.pos) /\ InRange(g.r.pos))
       => out = IntOut(g.r.pos - g.a.pos)
  /\ last.op = "plus" => ret = PlusAssign(its.a, last.n)

\* The same with the pointer-based iterator's stride restricted to nonzero
\* values.
DiffInvertsOffsetNonzeroStride ==
  (direct => xpr.stride # 0) => C4_DiffInvertsOffset

\* C5: in a debug build, comparing or differencing iterators bound to
\* different expression instances fails an assertion and returns nothing,
\* for every kind of iterator; so two iterators are equal only when bound to
\* the same instance.
C5_DifferentXprAsserts ==
  (debug /\ lpc = "compared") => out = AssertFail

\* C5 as amended: the index-based iterators (the generic iterator of 1-D
\* expressions without direct access and the sub-vector iterator) fail the
\* assertion in a debug build and return nothing.
C5_IndexBasedAssert ==
  (debug /\ lpc = "compared" /\ lit.kind \in {"gen", "sub"}) => out = AssertFail

\* C5's case: an iterator over the rows of one 2-D expression, past its first
\* row, is compared for equality with one of another instance.
C5_Witness ==
  /\ debug /\ lpc = "compared" /\ last.op = "eq"
  /\ lit.kind = "sub" /\ lit.m_index = 1
  /\ out = AssertFail

\* Row k and column k of the 2-D expression, element by element.
RowView(m, k) ==
  [dir |-> "Horizontal", index |-> k, elems |-> [c \in 1..m.cols |-> MatCoeff(m, k, c - 1)]]
ColView(m, k) ==
  [dir |-> "Vertical", index |-> k, elems |-> [r \in 1..m.rows |-> MatCoeff(m, r - 1, k)]]


\* C6: traversing allRows() from begin() with ++ until the iterator equals
\* end() yields the rows 0..R-1 in order and nothing else, allCols() the
\* columns 0..C-1; begin() is at index 0, end() at R resp. C, and cbegin(),
\* cend() are at the same positions.
C6_SubVectorTraversal ==
  lit.kind = "sub" =>
    LET n == IF lit.dir = "Horizontal" THEN mat.rows ELSE mat.cols IN
      /\ lpc # "abort"
      /\ Len(visited) <= n
      /\ \A k \in 1..Len(visited) :
           visited[k] = IF lit.dir = "Horizontal" THEN RowView(mat, k - 1)
                        ELSE ColView(mat, k - 1)
      /\ lpc \in {"test", "body"} => lit.m_index = Len(visited)
      /\ lpc = "body" => Len(visited) < n
      /\ lpc = "done" => Len(visited) = n /\ lit.m_index = n

\* C6's case: the rows of a 3 x 2 expression, traversed to the end with the
\* read-only iterators; and the columns of a 2 x 3 one.
C6_Witness ==
  /\ lpc = "done" /\ lit.kind = "sub" /\ lconst
  /\ lit.dir = "Horizontal" /\ mat.rows = 3 /\ mat.cols = 2
  /\ Len(visited) = 3
  /\ visited[3].elems = <<MatCoeff(mat, 2, 0), MatCoeff(mat, 2, 1)>>

\* C7: the pointer-based begin()[i] reads the address data() + i * stride,
\* for every stride; with stride -1 and data() at the last stored element,
\* begin()[0] is the last stored element and begin()[size() - 1] the first.
C7_ReverseStrideIndexing ==
  (last.op = "index" /\ direct /\ g.a.pos = 0) =>
    /\ out = ElemOut(Load(xpr.data + last.n * xpr.stride))
    /\ (xpr.stride = 0 - 1 /\ last.n = 0) => out = ElemOut(Load(xpr.size - 1))
    /\ (xpr.stride = 0 - 1 /\ last.n = xpr.size - 1) => out = ElemOut(Load(0))

\* C7's case: begin()[size() - 1] of a reversed view of three elements.
C7_Witness ==
  /\ last.op = "index" /\ direct /\ g.a.pos = 0
  /\ xpr.stride = 0 - 1 /\ xpr.size = 3 /\ last.n = 2
  /\ xpr.data = 2
  /\ out = ElemOut(Load(0))

\* C8: <, <=, >, >= applied to begin() + i and begin() + j, for i and j in
\* [0, size], give what the same comparison of i and j gives, for either
\* strategy and any inner stride.
C8_OrderFollowsPosition ==
  (last.op \in OrderOps /\ InRange(g.a.pos) /\ InRange(g.b.pos))
    => out = BoolOut(IntCompare(last.op, g.a.pos, g.b.pos))

\* The same with the pointer-based iterator's stride restricted to positive
\* values: what the code does guarantee.
OrderFollowsPositionPositiveStride ==
  (direct => xpr.stride > 0) => C8_OrderFollowsPosition

\* C9: it + n, n + it, it - n and n - it leave it as it was and return an
\* iterator at position p + n (the adding forms) or p - n (the subtracting
\* forms); dereferencing, indexing and -> leave it as it was.
C9_OffsetsDoNotMutate ==
  /\ last.op \in {"plus", "rplus", "minus", "rminus", "deref", "index", "arrow"}
       => its.a = g.prev
  /\ last.op \in {"plus", "rplus"} => AtPos(ret, xpr, g.a.pos + last.n)
  /\ last.op \in {"minus", "rminus"} => AtPos(ret, xpr, g.a.pos - last.n)

\* C9's case: n - it with n = 2 and it at position 2.
C9_Witness ==
  /\ last.op = "rminus" /\ last.n = 2 /\ g.a.pos = 2
  /\ ~direct /\ ret.m_index = 0 /\ its.a.m_index = 2

\* C10: a traversal of a 1-D expression of size n from begin() by ++ reaches
\* end() after exactly n increments and not before, for either strategy: it
\* visits the elements 0..n-1 once each, in order, and stops.
C10_TraversalEndsAtEnd ==
  lit.kind \in {"ptr", "gen"} =>
    /\ lpc # "abort"
    /\ lpc = "body" => Len(visited) < xpr.size
    /\ lpc = "done" =>
         /\ Len(visited) = xpr.size
         /\ \A i \in 1..Len(visited) : visited[i] = XprCoeff(xpr, i - 1)

\* The same with the pointer-based iterator's stride restricted to nonzero
\* values.
TraversalEndsAtEndNonzeroStride ==
  (direct => xpr.stride # 0) => C10_TraversalEndsAtEnd

====
